---- MODULE Spec2Model ----
(***************************************************************************)
(* Accelerator engine framework (lib/accel/accel_engine.c): module         *)
(* registry, hardware/software engine slots, per-thread channel binding,   *)
(* the dispatcher with its completion trampoline, the built-in software    *)
(* engine, and the sequential finalization walk.                           *)
(***************************************************************************)
EXTENDS Integers, Sequences, FiniteSets, TLC

\* ------------------------------------------------------------------ bounds
\* Longest module list the registration phase builds.
MaxModules == 3
\* Largest reference count a thread holds on one io channel.
MaxRef == 2
\* Largest nbytes of a submitted operation; also the bytes modelled per page.
MaxLen == 2
\* Messages pending on the thread when spdk_accel_engine_finish is called.
MaxQueue == 1

\* ------------------------------------------------------- program constants
ALIGN_4K == 4096
\* EINVAL of errno.h, returned negated by spdk_accel_submit_dualcast.
EINVAL == 22
\* sizeof(struct spdk_accel_task): the cb pointer followed by offload_ctx[0].
SizeofAccelTask == 8
\* offsetof(struct spdk_accel_task, offload_ctx).
OffloadCtxOffset == 8
\* A uint32_t is the set of the positions of its one bits.
WordBits == 0..31
\* The reflected CRC-32C (Castagnoli) polynomial 0x82F63B78.
Crc32cPoly == {3, 4, 5, 6, 8, 9, 11, 12, 13, 17, 18, 20, 21, 22, 23, 25, 31}

NULL == "NULL"

\* ------------------------------------------------------------ input domains
Threads == {"t1", "t2"}
\* Hardware engines some module may pass to spdk_accel_hw_engine_register.
HwEngines == {"hw1", "hw2"}
SwEngine == "sw_accel_engine"
\* Modules that register through SPDK_ACCEL_MODULE_REGISTER: the built-in
\* software module and three external ones.
SwModule == "sw"
ExtModules == {"modA", "modB", "modC"}
Modules == {SwModule} \cup ExtModules
\* Final-callback functions and arguments given to spdk_accel_engine_finish.
FiniCbs == {"fini_cb1", "fini_cb2"}
FiniArgs == {"arg1", "arg2"}

\* Caller memory: MaxLen bytes at the start of each of two 4 KiB pages.
Pages == {1, 2}
Addrs == {p * ALIGN_4K + i : p \in Pages, i \in 0..(MaxLen - 1)}
Bytes == {0, 1}
\* Task contexts the callers own, by address, and their completion callbacks.
Tasks == {65536, 65600}
Callbacks == {"cbA", "cbB"}
\* What the module_init hook of an external module returns.
InitRcs == {0, -1}
\* CRC seeds callers pass and completion statuses a hardware engine reports.
Seeds == {0, 1}
HwStatuses == {0, 5, -5}
Batches == {"batch1"}

\* module_fini of a module descriptor: TRUE when the hook is non-NULL.
module_fini(m) == m \in {SwModule, "modA", "modB"}

\* get_ctx_size of a module descriptor: whether the hook is non-NULL, and
\* what it returns.
has_get_ctx_size(m) == m \in {SwModule, "modA", "modC"}

get_ctx_size(m) ==
  CASE m = SwModule -> SizeofAccelTask
    [] m = "modA" -> 16
    [] OTHER -> 4

\* io devices: the framework's (keyed by &spdk_accel_module_list), the
\* software engine's (keyed by &sw_accel_engine) and one per hardware engine.
AccelDev == "accel_module"
SwDev == "sw_accel_engine_dev"
Devices == {AccelDev, SwDev} \cup HwEngines

VARIABLES
  g_max_accel_module_size,  \* line 54
  g_hw_accel_engine,        \* line 56
  g_sw_accel_engine,        \* line 57
  g_accel_engine_module,    \* line 58: index into the list, 0 for NULL
  g_fini_cb_fn,             \* line 59
  g_fini_cb_arg,            \* line 60
  spdk_accel_module_list,   \* line 63: sequence of registered modules
  io_devices,               \* registered io devices
  io_ref,                   \* per device and thread: references held
  accel_ch,                 \* per thread: struct accel_io_channel
  msgq,                     \* messages sent to the thread, not yet run
  fini_running,             \* external fini hooks running, not yet signalled
  phase,                    \* position of the application's lifecycle calls
  fault,                    \* "none", or the fault that stopped the process
  hist,                     \* observations of the current init/finish cycle
  ch_hist,                  \* per thread: observations of channel creation
  hw_reg,                   \* observations of spdk_accel_hw_engine_register
  mem,                      \* caller memory, byte per address
  tasks,                    \* per task context: struct spdk_accel_task
  hw_pending,               \* cb_arg of the operations a hardware engine holds
  passed,                   \* per task: the callback its last submit was given
  step                      \* the dispatcher call or completion just run

lifeVars == <<g_max_accel_module_size, g_hw_accel_engine, g_sw_accel_engine,
              g_accel_engine_module, g_fini_cb_fn, g_fini_cb_arg,
              spdk_accel_module_list, io_devices, io_ref, accel_ch, msgq,
              fini_running, phase, fault, hist, ch_hist, hw_reg>>

dataVars == <<mem, tasks, hw_pending, passed>>

vars == <<lifeVars, dataVars, step>>

NoChannel == [engine |-> NULL, ch |-> NULL]
NoReq == [fn |-> NULL, arg |-> NULL]
NoHist == [invoked |-> <<>>, signalled |-> <<>>, final |-> <<>>, init |-> <<>>,
           init_rc |-> <<>>, init_failed |-> FALSE, sw_assert |-> "none",
           misused |-> FALSE, req |-> NoReq]
NoChHist == [hw |-> NULL, hw_ok |-> FALSE, rc |-> 0]
NoStep == [op |-> "none"]

Init ==
  /\ g_max_accel_module_size = 0
  /\ g_hw_accel_engine = NULL
  /\ g_sw_accel_engine = NULL
  /\ g_accel_engine_module = 0
  /\ g_fini_cb_fn = NULL
  /\ g_fini_cb_arg = NULL
  /\ spdk_accel_module_list = <<>>
  /\ io_devices = {}
  /\ io_ref = [d \in Devices |-> [t \in Threads |-> 0]]
  /\ accel_ch = [t \in Threads |-> NoChannel]
  /\ msgq = <<>>
  /\ fini_running = {}
  /\ phase = "startup"
  /\ fault = "none"
  /\ hist = NoHist
  /\ ch_hist = [t \in Threads |-> NoChHist]
  /\ hw_reg = [first |-> NULL, last |-> NULL, calls |-> 0]
  /\ mem = [a \in Addrs |-> 0]
  /\ tasks = [k \in Tasks |-> [cb |-> NULL]]
  /\ hw_pending = {}
  /\ passed = [k \in Tasks |-> NULL]
  /\ step = NoStep

\* A step of the framework's registration, channel and lifecycle code: it
\* touches no caller memory and no task context.
NoData == UNCHANGED dataVars /\ step' = NoStep

\* ------------------------------------------------------------ registration

\* Mutant: the slot is written without the NULL test, the last registrant wins.
hw_engine_register_overwrite(slot, accel_engine) == accel_engine

\* spdk_accel_hw_engine_register: the first registrant keeps the slot; a later
\* call only logs.
hw_engine_register(slot, accel_engine) ==
  IF slot = NULL THEN accel_engine ELSE slot

spdk_accel_hw_engine_register(accel_engine) ==
  /\ fault = "none"
  /\ g_hw_accel_engine' = hw_engine_register(g_hw_accel_engine, accel_engine)
  /\ hw_reg' = [first |-> IF hw_reg.calls = 0 THEN accel_engine
                          ELSE hw_reg.first,
                last |-> accel_engine,
                calls |-> IF hw_reg.calls = 0 THEN 1 ELSE 2]
  /\ UNCHANGED <<g_max_accel_module_size, g_sw_accel_engine,
                 g_accel_engine_module, g_fini_cb_fn, g_fini_cb_arg,
                 spdk_accel_module_list, io_devices, io_ref, accel_ch, msgq,
                 fini_running, phase, fault, hist, ch_hist>>

\* spdk_accel_task_size: the cached maximum.
spdk_accel_task_size == g_max_accel_module_size

\* Mutant: the size test is missing, the last module with a get_ctx_size
\* hook sets the cached value.
max_accel_module_size_last(cur, m) ==
  IF has_get_ctx_size(m) THEN get_ctx_size(m) ELSE cur

\* The cached maximum after a module registered.
max_accel_module_size(cur, m) ==
  IF has_get_ctx_size(m) /\ get_ctx_size(m) > cur THEN get_ctx_size(m) ELSE cur

\* spdk_accel_module_list_add, run by each module's constructor before the
\* application starts the framework.
spdk_accel_module_list_add(m) ==
  /\ fault = "none"
  /\ phase = "startup"
  /\ \A i \in 1..Len(spdk_accel_module_list) : spdk_accel_module_list[i] # m
  /\ Len(spdk_accel_module_list) < MaxModules
  /\ spdk_accel_module_list' = Append(spdk_accel_module_list, m)
  /\ g_max_accel_module_size' = max_accel_module_size(g_max_accel_module_size, m)
  /\ UNCHANGED <<g_hw_accel_engine, g_sw_accel_engine,
                 g_accel_engine_module, g_fini_cb_fn, g_fini_cb_arg,
                 io_devices, io_ref, accel_ch, msgq,
                 fini_running, phase, fault, hist, ch_hist, hw_reg>>

\* ---------------------------------------------------------------- channels

\* A thread's framework channel exists while it holds a reference on it.
HasChannel(t) == io_ref[AccelDev][t] > 0

\* sw_accel_get_io_channel: spdk_get_io_channel(&sw_accel_engine), NULL when
\* that io device is not registered.
sw_accel_get_io_channel == IF SwDev \in io_devices THEN SwDev ELSE NULL

\* Mutant: the return after the hardware binding is missing, and the software
\* binding overwrites it.
accel_engine_create_cb_fallthrough(hw_ch) ==
  IF g_sw_accel_engine = NULL
  THEN [engine |-> NULL, ch |-> NULL, rc |-> 0, fault |-> "null_deref"]
  ELSE IF sw_accel_get_io_channel = NULL
  THEN [engine |-> NULL, ch |-> NULL, rc |-> 0, fault |-> "assert"]
  ELSE [engine |-> g_sw_accel_engine, ch |-> sw_accel_get_io_channel,
        rc |-> 0, fault |-> "none"]

\* accel_engine_create_cb. hw_ch is what the hardware engine's get_io_channel
\* returns when it is asked: its channel, or NULL. The result is the filled
\* struct accel_io_channel, the return value and the fault raised, if any.
accel_engine_create_cb(hw_ch) ==
  IF g_hw_accel_engine # NULL /\ hw_ch # NULL
  THEN [engine |-> g_hw_accel_engine, ch |-> hw_ch, rc |-> 0, fault |-> "none"]
  ELSE IF g_sw_accel_engine = NULL
  THEN [engine |-> NULL, ch |-> NULL, rc |-> 0, fault |-> "null_deref"]
  ELSE IF sw_accel_get_io_channel = NULL
  THEN [engine |-> NULL, ch |-> NULL, rc |-> 0, fault |-> "assert"]
  ELSE [engine |-> g_sw_accel_engine, ch |-> sw_accel_get_io_channel,
        rc |-> 0, fault |-> "none"]

\* spdk_accel_engine_get_io_channel on thread t: spdk_get_io_channel returns
\* NULL for an unregistered device, takes one more reference on the thread's
\* existing channel, or creates the channel through accel_engine_create_cb.
spdk_accel_engine_get_io_channel(t, hw_ok) ==
  /\ fault = "none"
  /\ AccelDev \in io_devices
  /\ io_ref[AccelDev][t] < MaxRef
  /\ IF HasChannel(t)
     THEN /\ io_ref' = [io_ref EXCEPT ![AccelDev][t] = @ + 1]
          /\ UNCHANGED <<accel_ch, ch_hist, fault>>
     ELSE LET hw_ch == IF g_hw_accel_engine # NULL /\ hw_ok
                       THEN g_hw_accel_engine ELSE NULL
              r == accel_engine_create_cb(hw_ch)
          IN  /\ fault' = r.fault
              /\ IF r.fault = "none"
                 THEN /\ accel_ch' = [accel_ch EXCEPT
                                        ![t] = [engine |-> r.engine, ch |-> r.ch]]
                      /\ io_ref' = [io_ref EXCEPT ![AccelDev][t] = 1,
                                                  ![r.ch][t] = @ + 1]
                      /\ ch_hist' = [ch_hist EXCEPT
                                       ![t] = [hw |-> g_hw_accel_engine,
                                               hw_ok |-> hw_ch # NULL,
                                               rc |-> r.rc]]
                 ELSE UNCHANGED <<accel_ch, io_ref, ch_hist>>
  /\ UNCHANGED <<g_max_accel_module_size, g_hw_accel_engine, g_sw_accel_engine,
                 g_accel_engine_module, g_fini_cb_fn, g_fini_cb_arg,
                 spdk_accel_module_list, io_devices, msgq,
                 fini_running, phase, hist, hw_reg>>

\* accel_engine_destroy_cb: releases the engine's channel; the context buffer
\* is freed with the channel.
accel_engine_destroy_cb(ref, t) ==
  [ref EXCEPT ![accel_ch[t].ch][t] = @ - 1]

\* spdk_put_io_channel on the thread's framework channel: the last reference
\* destroys it.
spdk_put_io_channel(t) ==
  /\ fault = "none"
  /\ HasChannel(t)
  /\ IF io_ref[AccelDev][t] = 1
     THEN /\ io_ref' = accel_engine_destroy_cb(
                         [io_ref EXCEPT ![AccelDev][t] = 0], t)
          /\ accel_ch' = [accel_ch EXCEPT ![t] = NoChannel]
          /\ ch_hist' = [ch_hist EXCEPT ![t] = NoChHist]
     ELSE /\ io_ref' = [io_ref EXCEPT ![AccelDev][t] = @ - 1]
          /\ UNCHANGED <<accel_ch, ch_hist>>
  /\ UNCHANGED <<g_max_accel_module_size, g_hw_accel_engine, g_sw_accel_engine,
                 g_accel_engine_module, g_fini_cb_fn, g_fini_cb_arg,
                 spdk_accel_module_list, io_devices, msgq,
                 fini_running, phase, fault, hist, hw_reg>>

\* Mutant: the dispatcher consults the hardware slot at call time instead of
\* the binding the channel holds.
BoundEngine_slot(t) ==
  IF g_hw_accel_engine # NULL THEN g_hw_accel_engine ELSE accel_ch[t].engine

\* The engine a dispatcher call on thread t is forwarded to: accel_ch->engine.
BoundEngine(t) == accel_ch[t].engine

\* ------------------------------------------------------ memory primitives

\* The n bytes at ptr.
Region(ptr, n) == {ptr + i : i \in 0..(n - 1)}

\* memcpy(dst, src, n) on memory m.
memcpy(m, dst, src, n) ==
  [a \in DOMAIN m |-> IF a \in Region(dst, n) THEN m[src + (a - dst)] ELSE m[a]]

\* memset(dst, c, n) on memory m.
memset(m, dst, c, n) ==
  [a \in DOMAIN m |-> IF a \in Region(dst, n) THEN c ELSE m[a]]

\* memcmp(s1, s2, n): the difference of the first pair of bytes that differ,
\* 0 when there is none.
RECURSIVE memcmp_from(_, _, _, _, _)
memcmp_from(m, s1, s2, n, i) ==
  IF i >= n THEN 0
  ELSE IF m[s1 + i] # m[s2 + i] THEN m[s1 + i] - m[s2 + i]
  ELSE memcmp_from(m, s1, s2, n, i + 1)

memcmp(m, s1, s2, n) == memcmp_from(m, s1, s2, n, 0)

\* uint32_t arithmetic on sets of bit positions.
Xor32(x, y) == (x \ y) \cup (y \ x)
Shr32(x) == {i - 1 : i \in x \ {0}}
Not32(x) == WordBits \ x
ToWord(n) == {i \in 0..30 : (n \div (2 ^ i)) % 2 = 1}

\* One byte folded into a CRC-32C, bit by bit.
RECURSIVE crc32c_bits(_, _)
crc32c_bits(crc, k) ==
  IF k = 0 THEN crc
  ELSE crc32c_bits(IF 0 \in crc THEN Xor32(Shr32(crc), Crc32cPoly)
                   ELSE Shr32(crc), k - 1)

\* spdk_crc32c_update(buf, len, crc) over the bytes of m at buf.
RECURSIVE crc32c_from(_, _, _, _, _)
crc32c_from(m, buf, len, crc, i) ==
  IF i >= len THEN crc
  ELSE crc32c_from(m, buf, len,
                   crc32c_bits(Xor32(crc, ToWord(m[buf + i])), 8), i + 1)

spdk_crc32c_update(m, buf, len, crc) == crc32c_from(m, buf, len, crc, 0)

\* --------------------------------------------------------- software engine

\* The task context that holds cb_arg as its offload_ctx.
TaskOfCtx(cb_arg) == cb_arg - OffloadCtxOffset

\* accel_req->offload_ctx.
offload_ctx(accel_req) == accel_req + OffloadCtxOffset

\* Mutant: the trampoline drops the engine's status and reports success.
accel_engine_done_success(tk, ref, status, m, crc) ==
  <<[e |-> "done", ref |-> ref, status |-> status],
    [e |-> "cb", cb |-> tk[ref].cb, task |-> ref, status |-> 0,
     seen |-> m, crc |-> crc]>>

\* _accel_engine_done(ref, status): the callback stored in the task, called
\* with the task and the status. m and crc are the memory and the checksum
\* output as they are when the callback runs.
accel_engine_done(tk, ref, status, m, crc) ==
  <<[e |-> "done", ref |-> ref, status |-> status],
    [e |-> "cb", cb |-> tk[ref].cb, task |-> ref, status |-> status,
     seen |-> m, crc |-> crc]>>

\* The result of an engine entry point: memory and checksum output after it,
\* what it called, its return value, the operations the hardware holds.
EngineResult(m, crc, ev, rc, pend) ==
  [mem |-> m, crc |-> crc, ev |-> ev, rc |-> rc, pend |-> pend,
   fault |-> "none"]

\* Mutant: the completion callback is called before the bytes are copied.
sw_accel_submit_copy_cb_first(tk, cb_arg, dst, src, nbytes) ==
  LET m1 == memcpy(mem, dst, src, nbytes)
  IN  EngineResult(m1, {},
        accel_engine_done(tk, TaskOfCtx(cb_arg), 0, mem, {}), 0, hw_pending)

sw_accel_submit_copy(tk, cb_arg, dst, src, nbytes) ==
  LET m1 == memcpy(mem, dst, src, nbytes)
  IN  EngineResult(m1, {},
        accel_engine_done(tk, TaskOfCtx(cb_arg), 0, m1, {}), 0, hw_pending)

\* Mutant: the second memcpy writes dst1 again.
sw_accel_submit_dualcast_dst1_twice(tk, cb_arg, dst1, dst2, src, nbytes) ==
  LET m1 == memcpy(mem, dst1, src, nbytes)
      m2 == memcpy(m1, dst1, src, nbytes)
  IN  EngineResult(m2, {},
        accel_engine_done(tk, TaskOfCtx(cb_arg), 0, m2, {}), 0, hw_pending)

sw_accel_submit_dualcast(tk, cb_arg, dst1, dst2, src, nbytes) ==
  LET m1 == memcpy(mem, dst1, src, nbytes)
      m2 == memcpy(m1, dst2, src, nbytes)
  IN  EngineResult(m2, {},
        accel_engine_done(tk, TaskOfCtx(cb_arg), 0, m2, {}), 0, hw_pending)

\* Mutant: the callback gets 0, as in the copy and fill entry points, instead
\* of the memcmp result.
sw_accel_submit_compare_status0(tk, cb_arg, src1, src2, nbytes) ==
  EngineResult(mem, {},
    accel_engine_done(tk, TaskOfCtx(cb_arg), 0, mem, {}), 0, hw_pending)

sw_accel_submit_compare(tk, cb_arg, src1, src2, nbytes) ==
  LET result == memcmp(mem, src1, src2, nbytes)
  IN  EngineResult(mem, {},
        accel_engine_done(tk, TaskOfCtx(cb_arg), result, mem, {}), 0,
        hw_pending)

sw_accel_submit_fill(tk, cb_arg, dst, fill, nbytes) ==
  LET m1 == memset(mem, dst, fill, nbytes)
  IN  EngineResult(m1, {},
        accel_engine_done(tk, TaskOfCtx(cb_arg), 0, m1, {}), 0, hw_pending)

\* *dst = spdk_crc32c_update(src, nbytes, ~seed).
sw_accel_submit_crc32c(tk, cb_arg, src, seed, nbytes) ==
  LET crc == spdk_crc32c_update(mem, src, nbytes, Not32(ToWord(seed)))
  IN  EngineResult(mem, crc,
        accel_engine_done(tk, TaskOfCtx(cb_arg), 0, mem, crc), 0, hw_pending)

\* An entry point of a hardware engine: it takes the operation, returns 0
\* and holds the operation until it completes it.
hw_submit(cb_arg) ==
  EngineResult(mem, {}, <<>>, 0, hw_pending \cup {cb_arg})

\* A call through a NULL entry of the engine's function table.
NullEntry ==
  [EngineResult(mem, {}, <<>>, 0, hw_pending) EXCEPT !.fault = "null_call"]

\* --------------------------------------------------------------- dispatcher

\* The arguments of a dispatcher call; the fields an operation does not take
\* are 0.
Args(dst, dst2, src, src2, fill, seed, nbytes) ==
  [dst |-> dst, dst2 |-> dst2, src |-> src, src2 |-> src2, fill |-> fill,
   seed |-> seed, nbytes |-> nbytes]

\* What the caller may pass: regions inside its memory, a destination that
\* does not overlap a source, and a task context no operation in flight uses.
ValidRegion(ptr, n) == Region(ptr, n) \subseteq Addrs
Disjoint(p, q, n) == Region(p, n) \cap Region(q, n) = {}
CanSubmit(t, accel_req) ==
  /\ fault = "none"
  /\ step = NoStep
  /\ HasChannel(t)
  /\ offload_ctx(accel_req) \notin hw_pending

\* The state after a dispatcher call: tk is the task contexts as the call
\* left them, fwd whether the engine's entry point was called and r its
\* result.
Returned(op, t, accel_req, a, cb, tk, fwd, r) ==
  /\ tasks' = tk
  /\ passed' = IF fwd THEN [passed EXCEPT ![accel_req] = cb] ELSE passed
  /\ mem' = r.mem
  /\ hw_pending' = r.pend
  /\ fault' = r.fault
  /\ step' = [op |-> op, engine |-> BoundEngine(t), task |-> accel_req,
              args |-> a, cb |-> cb, forwarded |-> fwd, rc |-> r.rc,
              crc |-> r.crc, events |-> r.ev]
  /\ UNCHANGED <<g_max_accel_module_size, g_hw_accel_engine, g_sw_accel_engine,
                 g_accel_engine_module, g_fini_cb_fn, g_fini_cb_arg,
                 spdk_accel_module_list, io_devices, io_ref, accel_ch, msgq,
                 fini_running, phase, hist, ch_hist, hw_reg>>

\* accel_req->cb = cb.
StoreCb(accel_req, cb) == [tasks EXCEPT ![accel_req].cb = cb]

spdk_accel_submit_copy(t, accel_req, dst, src, nbytes, cb) ==
  /\ CanSubmit(t, accel_req)
  /\ ValidRegion(dst, nbytes) /\ ValidRegion(src, nbytes)
  /\ Disjoint(dst, src, nbytes)
  /\ LET tk == StoreCb(accel_req, cb)
         r == IF BoundEngine(t) = SwEngine
              THEN sw_accel_submit_copy(tk, offload_ctx(accel_req), dst, src,
                                        nbytes)
              ELSE hw_submit(offload_ctx(accel_req))
     IN  Returned("copy", t, accel_req, Args(dst, 0, src, 0, 0, 0, nbytes),
                  cb, tk, TRUE, r)

\* Mutant: only dst1 is tested.
Misaligned_dst1_only(dst1, dst2) == dst1 % ALIGN_4K # 0

\* The alignment test of spdk_accel_submit_dualcast.
Misaligned(dst1, dst2) ==
  dst1 % ALIGN_4K # 0 \/ dst2 % ALIGN_4K # 0

spdk_accel_submit_dualcast(t, accel_req, dst1, dst2, src, nbytes, cb) ==
  /\ CanSubmit(t, accel_req)
  /\ ValidRegion(dst1, nbytes) /\ ValidRegion(dst2, nbytes)
  /\ ValidRegion(src, nbytes)
  /\ Disjoint(dst1, src, nbytes) /\ Disjoint(dst2, src, nbytes)
  /\ LET a == Args(dst1, dst2, src, 0, 0, 0, nbytes)
     IN  IF Misaligned(dst1, dst2)
         THEN Returned("dualcast", t, accel_req, a, cb, tasks, FALSE,
                       EngineResult(mem, {}, <<>>, -EINVAL, hw_pending))
         ELSE LET tk == StoreCb(accel_req, cb)
                  r == IF BoundEngine(t) = SwEngine
                       THEN sw_accel_submit_dualcast(tk, offload_ctx(accel_req),
                                                     dst1, dst2, src, nbytes)
                       ELSE hw_submit(offload_ctx(accel_req))
              IN  Returned("dualcast", t, accel_req, a, cb, tk, TRUE, r)

spdk_accel_submit_compare(t, accel_req, src1, src2, nbytes, cb) ==
  /\ CanSubmit(t, accel_req)
  /\ ValidRegion(src1, nbytes) /\ ValidRegion(src2, nbytes)
  /\ LET tk == StoreCb(accel_req, cb)
         r == IF BoundEngine(t) = SwEngine
              THEN sw_accel_submit_compare(tk, offload_ctx(accel_req), src1,
                                           src2, nbytes)
              ELSE hw_submit(offload_ctx(accel_req))
     IN  Returned("compare", t, accel_req,
                  Args(0, 0, src1, src2, 0, 0, nbytes), cb, tk, TRUE, r)

spdk_accel_submit_fill(t, accel_req, dst, fill, nbytes, cb) ==
  /\ CanSubmit(t, accel_req)
  /\ ValidRegion(dst, nbytes)
  /\ LET tk == StoreCb(accel_req, cb)
         r == IF BoundEngine(t) = SwEngine
              THEN sw_accel_submit_fill(tk, offload_ctx(accel_req), dst, fill,
                                        nbytes)
              ELSE hw_submit(offload_ctx(accel_req))
     IN  Returned("fill", t, accel_req, Args(dst, 0, 0, 0, fill, 0, nbytes),
                  cb, tk, TRUE, r)

\* The checksum goes to a uint32_t of the caller's, outside the pages.
spdk_accel_submit_crc32c(t, accel_req, src, seed, nbytes, cb) ==
  /\ CanSubmit(t, accel_req)
  /\ ValidRegion(src, nbytes)
  /\ LET tk == StoreCb(accel_req, cb)
         r == IF BoundEngine(t) = SwEngine
              THEN sw_accel_submit_crc32c(tk, offload_ctx(accel_req), src,
                                          seed, nbytes)
              ELSE hw_submit(offload_ctx(accel_req))
     IN  Returned("crc32c", t, accel_req, Args(0, 0, src, 0, 0, seed, nbytes),
                  cb, tk, TRUE, r)

\* The software engine's batch_prep_copy and batch_submit entries are NULL.
spdk_accel_batch_prep_copy(t, accel_req, batch, dst, src, nbytes, cb) ==
  /\ CanSubmit(t, accel_req)
  /\ ValidRegion(dst, nbytes) /\ ValidRegion(src, nbytes)
  /\ Disjoint(dst, src, nbytes)
  /\ LET tk == StoreCb(accel_req, cb)
         r == IF BoundEngine(t) = SwEngine THEN NullEntry
              ELSE hw_submit(offload_ctx(accel_req))
     IN  Returned("batch_prep_copy", t, accel_req,
                  Args(dst, 0, src, 0, 0, 0, nbytes), cb, tk, TRUE, r)

spdk_accel_batch_submit(t, accel_req, batch, cb) ==
  /\ CanSubmit(t, accel_req)
  /\ LET tk == StoreCb(accel_req, cb)
         r == IF BoundEngine(t) = SwEngine THEN NullEntry
              ELSE hw_submit(offload_ctx(accel_req))
     IN  Returned("batch_submit", t, accel_req, Args(0, 0, 0, 0, 0, 0, 0),
                  cb, tk, TRUE, r)

\* A hardware engine completes an operation it holds: it calls the completion
\* function it was given, _accel_engine_done, once, with the task and a
\* status.
HwComplete(cb_arg, status) ==
  /\ fault = "none"
  /\ step = NoStep
  /\ cb_arg \in hw_pending
  /\ hw_pending' = hw_pending \ {cb_arg}
  /\ step' = [op |-> "complete", task |-> TaskOfCtx(cb_arg),
              status |-> status,
              events |-> accel_engine_done(tasks, TaskOfCtx(cb_arg), status,
                                           mem, {})]
  /\ UNCHANGED <<lifeVars, mem, tasks, passed>>

\* The caller takes the return value of its call, or the completion callback
\* returns.
Resume ==
  /\ step # NoStep
  /\ step' = NoStep
  /\ UNCHANGED <<lifeVars, dataVars>>

\* --------------------------------------------------------------- lifecycle

\* Mutant: the precondition is not asserted.
accel_sw_register_unchecked(slot, accel_engine, ndebug) ==
  [slot |-> accel_engine, fault |-> "none", asserted |-> "held"]

\* accel_sw_register: the asserted precondition fails when the slot is taken.
\* A build with NDEBUG has no assert and stores the engine; any other build
\* aborts.
accel_sw_register(slot, accel_engine, ndebug) ==
  [slot |-> IF slot = NULL \/ ndebug THEN accel_engine ELSE slot,
   fault |-> IF slot = NULL \/ ndebug THEN "none" ELSE "assert",
   asserted |-> IF slot = NULL THEN "held" ELSE "violated"]

\* Mutant: the slot keeps the engine.
accel_sw_unregister_keep == SwEngine

\* accel_sw_unregister.
accel_sw_unregister == NULL

\* module_init of module m: sw_accel_engine_init fills the software slot,
\* registers the engine's io device and returns 0; the hook of an external
\* module returns rcs[m]. st is the state the walk has reached.
module_init(m, rcs, st) ==
  IF m = SwModule
  THEN LET r == accel_sw_register(st.sw, SwEngine, st.ndebug)
       IN  [st EXCEPT !.sw = r.slot, !.fault = r.fault,
                      !.sw_assert = r.asserted,
                      !.devices = IF r.fault = "none" THEN @ \cup {SwDev}
                                  ELSE @,
                      !.inits = Append(@, m)]
  ELSE [st EXCEPT !.inits = Append(@, m),
                  !.failed = @ \/ rcs[m] # 0]

\* Mutant: the walk stops at the first hook that returns nonzero.
RECURSIVE accel_engine_module_initialize_stop(_, _, _, _)
accel_engine_module_initialize_stop(list, i, rcs, st) ==
  IF i > Len(list) \/ st.fault # "none" \/ st.failed THEN st
  ELSE accel_engine_module_initialize_stop(list, i + 1, rcs,
         module_init(list[i], rcs, st))

\* accel_engine_module_initialize: module_init of every module of the list,
\* front to back, the return values dropped. The result is the state after
\* the walk, with the hooks run, in order.
RECURSIVE accel_engine_module_initialize(_, _, _, _)
accel_engine_module_initialize(list, i, rcs, st) ==
  IF i > Len(list) \/ st.fault # "none" THEN st
  ELSE accel_engine_module_initialize(list, i + 1, rcs,
         module_init(list[i], rcs, st))

\* spdk_accel_engine_initialize: the module walk, then the framework's io
\* device is registered; returns 0. The application calls it in order when
\* the framework is not started, or was finalized to its final callback.
InOrderInitialize == phase \in {"startup", "finished"}

spdk_accel_engine_initialize(rcs, ndebug) ==
  /\ fault = "none"
  /\ LET st == accel_engine_module_initialize(spdk_accel_module_list, 1, rcs,
                 [sw |-> g_sw_accel_engine, fault |-> "none",
                  devices |-> io_devices, inits |-> <<>>, failed |-> FALSE,
                  sw_assert |-> "none", ndebug |-> ndebug])
         h == [NoHist EXCEPT !.init_failed = st.failed,
                             !.sw_assert = st.sw_assert,
                             !.misused = hist.misused \/ ~InOrderInitialize]
     IN  /\ g_sw_accel_engine' = st.sw
         /\ fault' = st.fault
         /\ io_devices' = IF st.fault = "none"
                          THEN st.devices \cup {AccelDev} ELSE st.devices
         /\ hist' = IF st.fault = "none"
                    THEN [h EXCEPT !.init = Append(st.inits, AccelDev),
                                   !.init_rc = <<0>>]
                    ELSE [h EXCEPT !.init = st.inits]
         /\ phase' = IF st.fault = "none" THEN "running" ELSE phase
  /\ UNCHANGED <<g_max_accel_module_size, g_hw_accel_engine,
                 g_accel_engine_module, g_fini_cb_fn, g_fini_cb_arg,
                 spdk_accel_module_list, io_ref, accel_ch, msgq,
                 fini_running, ch_hist, hw_reg>>

TAILQ_FIRST(list) == IF Len(list) > 0 THEN 1 ELSE 0

TAILQ_NEXT(list, i) == IF i < Len(list) THEN i + 1 ELSE 0

\* Mutant: a module without a fini hook is not skipped, the walk stops on it.
module_finish_cursor_no_skip(list, cur) ==
  IF cur = 0 THEN TAILQ_FIRST(list) ELSE TAILQ_NEXT(list, cur)

\* The cursor moves of spdk_accel_engine_module_finish, with its synchronous
\* re-invocation for a module that has no fini hook: the result is the cursor
\* at which the call chain stops, 0 when it ran off the end of the list and
\* otherwise the module whose fini hook is sent as a message.
RECURSIVE module_finish_cursor(_, _)
module_finish_cursor(list, cur) ==
  LET nxt == IF cur = 0 THEN TAILQ_FIRST(list) ELSE TAILQ_NEXT(list, cur)
  IN  IF nxt = 0 THEN 0
      ELSE IF module_fini(list[nxt]) THEN nxt
      ELSE module_finish_cursor(list, nxt)

\* Mutant: the stored argument is cleared before the callback is called.
accel_engine_module_finish_cb_cleared(cb_fn, cb_arg) ==
  IF cb_fn = NULL
  THEN [called |-> <<>>, fault |-> "null_call"]
  ELSE [called |-> <<[fn |-> cb_fn, arg |-> NULL]>>, fault |-> "none"]

\* accel_engine_module_finish_cb: the final callback the application gave,
\* called with its argument. Calling it when none is stored is a call
\* through a NULL pointer.
accel_engine_module_finish_cb(cb_fn, cb_arg) ==
  IF cb_fn = NULL
  THEN [called |-> <<>>, fault |-> "null_call"]
  ELSE [called |-> <<[fn |-> cb_fn, arg |-> cb_arg]>>, fault |-> "none"]

\* Mutant: the else before the synchronous re-invocation is missing, so the
\* walk goes on after a fini hook was sent: every remaining hook is sent and
\* the final callback is called in the same call.
spdk_accel_engine_module_finish_no_else(cb_fn, cb_arg, q, h) ==
  LET first == IF g_accel_engine_module = 0
               THEN TAILQ_FIRST(spdk_accel_module_list)
               ELSE TAILQ_NEXT(spdk_accel_module_list, g_accel_engine_module)
      rest == IF first = 0 THEN <<>>
              ELSE SubSeq(spdk_accel_module_list, first,
                          Len(spdk_accel_module_list))
      fin == accel_engine_module_finish_cb(cb_fn, cb_arg)
  IN  /\ g_accel_engine_module' = 0
      /\ msgq' = q \o SelectSeq(rest, module_fini)
      /\ fault' = fin.fault
      /\ g_fini_cb_fn' = NULL
      /\ g_fini_cb_arg' = NULL
      /\ hist' = [h EXCEPT !.final = @ \o fin.called]
      /\ phase' = IF fin.fault = "none" THEN "finished" ELSE phase

\* Mutant: the fini hook of the module under the cursor is not sent to the
\* thread.
spdk_accel_engine_module_finish_no_send(cb_fn, cb_arg, q, h) ==
  LET cur == module_finish_cursor(spdk_accel_module_list, g_accel_engine_module)
      fin == accel_engine_module_finish_cb(cb_fn, cb_arg)
  IN  /\ g_accel_engine_module' = cur
      /\ msgq' = q
      /\ IF cur = 0
         THEN /\ fault' = fin.fault
              /\ g_fini_cb_fn' = NULL
              /\ g_fini_cb_arg' = NULL
              /\ hist' = [h EXCEPT !.final = @ \o fin.called]
              /\ phase' = IF fin.fault = "none" THEN "finished" ELSE phase
         ELSE /\ g_fini_cb_fn' = cb_fn
              /\ g_fini_cb_arg' = cb_arg
              /\ hist' = h
              /\ phase' = "finalizing"
              /\ fault' = fault

\* Mutant: the stored final callback and its argument are not cleared after
\* the callback was called.
spdk_accel_engine_module_finish_keep_cb(cb_fn, cb_arg, q, h) ==
  LET cur == module_finish_cursor(spdk_accel_module_list, g_accel_engine_module)
      fin == accel_engine_module_finish_cb(cb_fn, cb_arg)
  IN  /\ g_accel_engine_module' = cur
      /\ g_fini_cb_fn' = cb_fn
      /\ g_fini_cb_arg' = cb_arg
      /\ IF cur = 0
         THEN /\ fault' = fin.fault
              /\ hist' = [h EXCEPT !.final = @ \o fin.called]
              /\ phase' = IF fin.fault = "none" THEN "finished" ELSE phase
              /\ msgq' = q
         ELSE /\ msgq' = Append(q, spdk_accel_module_list[cur])
              /\ hist' = h
              /\ phase' = "finalizing"
              /\ fault' = fault

\* spdk_accel_engine_module_finish, entered with the final callback cb_fn and
\* cb_arg stored, the thread's pending messages q and h observed so far.
spdk_accel_engine_module_finish(cb_fn, cb_arg, q, h) ==
  LET cur == module_finish_cursor(spdk_accel_module_list, g_accel_engine_module)
      fin == accel_engine_module_finish_cb(cb_fn, cb_arg)
  IN  /\ g_accel_engine_module' = cur
      /\ IF cur = 0
         THEN /\ fault' = fin.fault
              /\ g_fini_cb_fn' = NULL
              /\ g_fini_cb_arg' = NULL
              /\ hist' = [h EXCEPT !.final = @ \o fin.called]
              /\ phase' = IF fin.fault = "none" THEN "finished" ELSE phase
              /\ msgq' = q
         ELSE /\ msgq' = Append(q, spdk_accel_module_list[cur])
              /\ g_fini_cb_fn' = cb_fn
              /\ g_fini_cb_arg' = cb_arg
              /\ hist' = h
              /\ phase' = "finalizing"
              /\ fault' = fault

\* spdk_accel_engine_finish(cb_fn, cb_arg). The application calls it in
\* order when the framework was initialized and is not being finalized.
InOrderFinish == phase = "running"

\* Mutant: the framework's io device is not unregistered.
spdk_accel_engine_finish_keep_device(cb_fn, cb_arg) ==
  /\ fault = "none"
  /\ Len(msgq) < MaxQueue
  /\ io_devices' = io_devices
  /\ spdk_accel_engine_module_finish(cb_fn, cb_arg, msgq,
       [hist EXCEPT !.invoked = <<>>, !.signalled = <<>>, !.final = <<>>,
                    !.req = [fn |-> cb_fn, arg |-> cb_arg],
                    !.misused = @ \/ ~InOrderFinish])
  /\ UNCHANGED <<g_max_accel_module_size, g_hw_accel_engine, g_sw_accel_engine,
                 spdk_accel_module_list, io_ref, accel_ch,
                 fini_running, ch_hist, hw_reg>>

spdk_accel_engine_finish(cb_fn, cb_arg) ==
  /\ fault = "none"
  /\ Len(msgq) < MaxQueue
  /\ io_devices' = io_devices \ {AccelDev}
  /\ spdk_accel_engine_module_finish(cb_fn, cb_arg, msgq,
       [hist EXCEPT !.invoked = <<>>, !.signalled = <<>>, !.final = <<>>,
                    !.req = [fn |-> cb_fn, arg |-> cb_arg],
                    !.misused = @ \/ ~InOrderFinish])
  /\ UNCHANGED <<g_max_accel_module_size, g_hw_accel_engine, g_sw_accel_engine,
                 spdk_accel_module_list, io_ref, accel_ch,
                 fini_running, ch_hist, hw_reg>>

\* The thread runs the oldest message sent to it: the fini hook of a module.
\* sw_accel_engine_fini unregisters the engine's io device, empties the
\* software slot and signals completion before it returns; the hook of an
\* external module starts that module's teardown.
RunMessage ==
  /\ fault = "none"
  /\ msgq # <<>>
  /\ LET m == Head(msgq)
         h == [hist EXCEPT !.invoked = Append(@, m)]
     IN  IF m = SwModule
         THEN /\ io_devices' = io_devices \ {SwDev}
              /\ g_sw_accel_engine' = accel_sw_unregister
              /\ spdk_accel_engine_module_finish(g_fini_cb_fn, g_fini_cb_arg,
                   Tail(msgq), [h EXCEPT !.signalled = Append(@, m)])
              /\ UNCHANGED fini_running
         ELSE /\ fini_running' = fini_running \cup {m}
              /\ msgq' = Tail(msgq)
              /\ hist' = h
              /\ UNCHANGED <<io_devices, g_sw_accel_engine,
                             g_accel_engine_module, g_fini_cb_fn,
                             g_fini_cb_arg, phase, fault>>
  /\ UNCHANGED <<g_max_accel_module_size, g_hw_accel_engine,
                 spdk_accel_module_list, io_ref, accel_ch, ch_hist, hw_reg>>

\* An external module whose fini hook ran finishes its teardown and signals
\* completion by calling spdk_accel_engine_module_finish.
ModuleFiniDone(m) ==
  /\ fault = "none"
  /\ m \in fini_running
  /\ fini_running' = fini_running \ {m}
  /\ spdk_accel_engine_module_finish(g_fini_cb_fn, g_fini_cb_arg, msgq,
       [hist EXCEPT !.signalled = Append(@, m)])
  /\ UNCHANGED <<g_max_accel_module_size, g_hw_accel_engine, g_sw_accel_engine,
                 spdk_accel_module_list, io_devices, io_ref, accel_ch, ch_hist,
                 hw_reg>>

Next ==
  \/ \E e \in HwEngines : spdk_accel_hw_engine_register(e) /\ NoData
  \/ \E m \in Modules : spdk_accel_module_list_add(m) /\ NoData
  \/ \E t \in Threads, hw_ok \in BOOLEAN :
       spdk_accel_engine_get_io_channel(t, hw_ok) /\ NoData
  \/ \E t \in Threads : spdk_put_io_channel(t) /\ NoData
  \/ \E rc \in InitRcs, ndebug \in BOOLEAN :
       /\ InOrderInitialize
       /\ \E i \in 1..Len(spdk_accel_module_list) :
            spdk_accel_module_list[i] = SwModule
       /\ spdk_accel_engine_initialize([m \in ExtModules |-> rc], ndebug)
       /\ NoData
  \/ \E cb_fn \in FiniCbs, cb_arg \in FiniArgs :
       InOrderFinish /\ spdk_accel_engine_finish(cb_fn, cb_arg) /\ NoData
  \/ RunMessage /\ NoData
  \/ \E m \in ExtModules : ModuleFiniDone(m) /\ NoData

Spec == Init /\ [][Next]_vars

\* The lifecycle with the scheduling finalization relies on: the thread
\* delivers every message sent to it, and an external module whose fini hook
\* ran completes its teardown and calls spdk_accel_engine_module_finish.
SpecLive ==
  /\ Init
  /\ [][Next]_vars
  /\ WF_vars(RunMessage /\ NoData)
  /\ \A m \in ExtModules : WF_vars(ModuleFiniDone(m) /\ NoData)

\* ------------------------------------------------- calls in any order
\* The module lists the constructors leave behind in the runs below.
FreeLists ==
  {<<SwModule>>, <<SwModule, "modA">>, <<"modA", SwModule>>,
   <<"modC", SwModule, "modB">>}

\* g_max_accel_module_size after spdk_accel_module_list_add of each module
\* of the list, front to back.
RECURSIVE SizeAfterAdds(_, _, _)
SizeAfterAdds(list, i, cur) ==
  IF i > Len(list) THEN cur
  ELSE SizeAfterAdds(list, i + 1, max_accel_module_size(cur, list[i]))

\* The process before the application starts the framework: the modules
\* are registered, a hardware engine may be, and nothing else has happened.
FreeInit ==
  /\ spdk_accel_module_list \in FreeLists
  /\ g_max_accel_module_size = SizeAfterAdds(spdk_accel_module_list, 1, 0)
  /\ g_hw_accel_engine \in {NULL} \cup HwEngines
  /\ g_sw_accel_engine = NULL
  /\ g_accel_engine_module = 0
  /\ g_fini_cb_fn = NULL
  /\ g_fini_cb_arg = NULL
  /\ io_devices = {}
  /\ io_ref = [d \in Devices |-> [t \in Threads |-> 0]]
  /\ accel_ch = [t \in Threads |-> NoChannel]
  /\ msgq = <<>>
  /\ fini_running = {}
  /\ phase = "startup"
  /\ fault = "none"
  /\ hist = NoHist
  /\ ch_hist = [t \in Threads |-> NoChHist]
  /\ hw_reg = [first |-> g_hw_accel_engine, last |-> g_hw_accel_engine,
               calls |-> IF g_hw_accel_engine = NULL THEN 0 ELSE 1]
  /\ mem = [a \in Addrs |-> 0]
  /\ tasks = [k \in Tasks |-> [cb |-> NULL]]
  /\ hw_pending = {}
  /\ passed = [k \in Tasks |-> NULL]
  /\ step = NoStep

\* The lifecycle calls made at any time, in order or not, in a build with
\* or without asserts.
FreeNext ==
  \/ \E ndebug \in BOOLEAN :
       spdk_accel_engine_initialize([m \in ExtModules |-> 0], ndebug) /\ NoData
  \/ \E cb_fn \in FiniCbs :
       spdk_accel_engine_finish(cb_fn, "arg1") /\ NoData
  \/ \E t \in Threads, hw_ok \in BOOLEAN :
       spdk_accel_engine_get_io_channel(t, hw_ok) /\ NoData
  \/ \E t \in Threads : spdk_put_io_channel(t) /\ NoData
  \/ RunMessage /\ NoData
  \/ \E m \in ExtModules : ModuleFiniDone(m) /\ NoData

SpecFree == FreeInit /\ [][FreeNext]_vars

\* ------------------------------------------------------------ the data path
\* The framework as Spec leaves it after the software module registered,
\* spdk_accel_engine_initialize ran, thread t1 created its channel, engine hw1
\* registered and thread t2 created its channel: t1 is bound to the software
\* engine and t2 to the hardware engine.
DataInit ==
  /\ g_max_accel_module_size = SizeofAccelTask
  /\ g_hw_accel_engine = "hw1"
  /\ g_sw_accel_engine = SwEngine
  /\ g_accel_engine_module = 0
  /\ g_fini_cb_fn = NULL
  /\ g_fini_cb_arg = NULL
  /\ spdk_accel_module_list = <<SwModule>>
  /\ io_devices = {AccelDev, SwDev}
  /\ io_ref = [d \in Devices |-> [t \in Threads |->
                 IF \/ d = AccelDev
                    \/ d = SwDev /\ t = "t1"
                    \/ d = "hw1" /\ t = "t2" THEN 1 ELSE 0]]
  /\ accel_ch = [t \in Threads |->
                   IF t = "t1" THEN [engine |-> SwEngine, ch |-> SwDev]
                   ELSE [engine |-> "hw1", ch |-> "hw1"]]
  /\ msgq = <<>>
  /\ fini_running = {}
  /\ phase = "running"
  /\ fault = "none"
  /\ hist = [NoHist EXCEPT !.init = <<SwModule, AccelDev>>, !.init_rc = <<0>>,
                           !.sw_assert = "held"]
  /\ ch_hist = [t \in Threads |->
                  IF t = "t1" THEN NoChHist
                  ELSE [hw |-> "hw1", hw_ok |-> TRUE, rc |-> 0]]
  /\ hw_reg = [first |-> "hw1", last |-> "hw1", calls |-> 1]
  /\ mem = [a \in Addrs |-> 0]
  /\ tasks = [k \in Tasks |-> [cb |-> NULL]]
  /\ hw_pending = {}
  /\ passed = [k \in Tasks |-> NULL]
  /\ step = NoStep

\* The threads that can make a dispatcher call now.
Ready == IF fault = "none" /\ step = NoStep THEN Threads ELSE {}

DataNext ==
  \/ \E t \in Ready : \E k \in Tasks, dst \in Addrs, src \in Addrs,
        n \in 0..MaxLen, cb \in Callbacks :
       spdk_accel_submit_copy(t, k, dst, src, n, cb)
  \/ \E t \in Ready : \E k \in Tasks, dst1 \in Addrs, dst2 \in Addrs,
        src \in Addrs, n \in 0..MaxLen, cb \in Callbacks :
       spdk_accel_submit_dualcast(t, k, dst1, dst2, src, n, cb)
  \/ \E t \in Ready : \E k \in Tasks, src1 \in Addrs, src2 \in Addrs,
        n \in 0..MaxLen, cb \in Callbacks :
       spdk_accel_submit_compare(t, k, src1, src2, n, cb)
  \/ \E t \in Ready : \E k \in Tasks, dst \in Addrs, fill \in Bytes,
        n \in 0..MaxLen, cb \in Callbacks :
       spdk_accel_submit_fill(t, k, dst, fill, n, cb)
  \/ \E t \in Ready : \E k \in Tasks, src \in Addrs, seed \in Seeds,
        n \in 0..MaxLen, cb \in Callbacks :
       spdk_accel_submit_crc32c(t, k, src, seed, n, cb)
  \/ \E t \in Ready : \E k \in Tasks, b \in Batches, dst \in Addrs,
        src \in Addrs, n \in 0..MaxLen, cb \in Callbacks :
       spdk_accel_batch_prep_copy(t, k, b, dst, src, n, cb)
  \/ \E t \in Ready : \E k \in Tasks, b \in Batches, cb \in Callbacks :
       spdk_accel_batch_submit(t, k, b, cb)
  \/ \E cb_arg \in hw_pending, status \in HwStatuses :
       HwComplete(cb_arg, status)
  \/ Resume

SpecData == DataInit /\ [][DataNext]_vars

\* DataInit is a state of Spec: hw1 registers, the software module is added,
\* the framework initializes, t1 gets a channel whose hardware channel is
\* refused and t2 one whose hardware channel is granted.

\* ------------------------------------------------------------------ claims

IsPrefix(a, b) == Len(a) <= Len(b) /\ \A i \in 1..Len(a) : a[i] = b[i]

\* The registered modules that have a fini hook, in registration order.
FiniModules == SelectSeq(spdk_accel_module_list, module_fini)

\* C1: during a finalization the fini hooks are invoked in registration
\* order, each at most once; the hook of a module is invoked only after the
\* hooks of all earlier modules signalled completion; at most one hook is
\* invoked and not yet signalled.
C1_FiniOneAtATime ==
  /\ IsPrefix(hist.invoked, FiniModules)
  /\ IsPrefix(hist.signalled, hist.invoked)
  /\ Len(hist.invoked) - Len(hist.signalled) <= 1
  /\ Cardinality(fini_running) = Len(hist.invoked) - Len(hist.signalled)
  /\ Len(msgq) + Cardinality(fini_running) <= 1

\* C1 witness: three modules with fini hooks, the third hook invoked and
\* not yet signalled.
C1_Witness ==
  /\ Len(FiniModules) = 3
  /\ Len(hist.invoked) = 3
  /\ Len(hist.signalled) = 2
  /\ fini_running # {}

\* C2: for one spdk_accel_engine_finish(cb_fn, cb_arg) the final callback is
\* called at most once, it is cb_fn called with cb_arg, and when it is called
\* every module was visited and every fini hook was invoked and signalled;
\* once nothing of the finalization is pending it has been called.
C2_FinalCallbackOnce ==
  /\ Len(hist.final) <= 1
  /\ hist.final # <<>> =>
       /\ hist.final[1] = hist.req
       /\ hist.invoked = FiniModules
       /\ hist.signalled = FiniModules
       /\ g_accel_engine_module = 0
       /\ msgq = <<>> /\ fini_running = {}
  /\ (hist.req # NoReq /\ msgq = <<>> /\ fini_running = {}) =>
       Len(hist.final) = 1

\* C2 witness: the final callback ran after three fini hooks.
C2_Witness ==
  /\ Len(hist.final) = 1
  /\ Len(hist.signalled) = 3
  /\ hist.final[1] = [fn |-> "fini_cb2", arg |-> "arg1"]

\* C3: while a thread's channel exists the engine it is bound to does not
\* change, whatever is called (another get_channel, a hardware
\* registration); a channel created while the hardware slot was empty is
\* bound to the software engine throughout.
C3_BindingStable ==
  [][\A t \in Threads :
       (HasChannel(t) /\ HasChannel(t)') =>
         /\ BoundEngine(t)' = BoundEngine(t)
         /\ ch_hist[t].hw = NULL => BoundEngine(t)' = SwEngine]_vars

\* C3 witness: a channel created before any hardware engine registered,
\* fetched twice, still bound to software after a hardware engine registered.
C3_Witness ==
  \E t \in Threads :
    /\ io_ref[AccelDev][t] = 2
    /\ ch_hist[t].hw = NULL
    /\ g_hw_accel_engine # NULL
    /\ BoundEngine(t) = SwEngine

\* C4: a channel is bound to the hardware engine and its channel exactly
\* when a hardware engine was registered at creation and its get_io_channel
\* returned non-NULL; otherwise it is bound to the software engine and the
\* software channel; creation returned 0.
C4_CreateBinding ==
  \A t \in Threads :
    HasChannel(t) =>
      /\ ch_hist[t].rc = 0
      /\ IF ch_hist[t].hw # NULL /\ ch_hist[t].hw_ok
         THEN accel_ch[t] = [engine |-> ch_hist[t].hw, ch |-> ch_hist[t].hw]
         ELSE accel_ch[t] = [engine |-> SwEngine, ch |-> SwDev]

\* C4 witness: one thread bound to hardware, another bound to software
\* because the registered hardware engine gave no channel.
C4_Witness ==
  \E t, u \in Threads :
    /\ HasChannel(t) /\ HasChannel(u)
    /\ accel_ch[t].engine \in HwEngines
    /\ ch_hist[u].hw # NULL /\ ~ch_hist[u].hw_ok
    /\ accel_ch[u].engine = SwEngine

\* C5: the hardware slot holds the engine of the first
\* spdk_accel_hw_engine_register call; a later call leaves it unchanged and
\* raises no fault.
C5_FirstHwWins ==
  [][/\ g_hw_accel_engine' = hw_reg'.first
     /\ g_hw_accel_engine # NULL => g_hw_accel_engine' = g_hw_accel_engine
     /\ hw_reg' # hw_reg => fault' = "none"]_vars

\* C5 witness: a second registration, of another engine, was made and the
\* first engine is still in the slot.
C5_Witness ==
  /\ hw_reg.calls = 2
  /\ hw_reg.last # hw_reg.first
  /\ g_hw_accel_engine = hw_reg.first

\* The completion-callback calls among the events of the step just run.
CallbackCalls(ev) == SelectSeq(ev, LAMBDA x : x.e = "cb")

\* C6: a spdk_accel_submit_dualcast call with dst1 or dst2 not a multiple of
\* 4096 returns -EINVAL on any engine, calls no engine entry point, changes
\* no byte of memory, leaves the task unchanged, calls no callback and leaves
\* nothing pending that could call it later; with both aligned the call is
\* forwarded to the engine.
C6_DualcastAlignment ==
  [][step'.op = "dualcast" =>
       IF step'.args.dst % 4096 # 0 \/ step'.args.dst2 % 4096 # 0
       THEN /\ step'.rc = -EINVAL
            /\ ~step'.forwarded
            /\ mem' = mem
            /\ tasks' = tasks
            /\ hw_pending' = hw_pending
            /\ step'.events = <<>>
       ELSE step'.forwarded]_vars

\* C6 witness: a dualcast on the hardware-bound channel with dst1 aligned and
\* dst2 misaligned was refused, with a task that holds an earlier callback.
C6_Witness ==
  /\ step.op = "dualcast"
  /\ step.engine \in HwEngines
  /\ step.args.dst % 4096 = 0
  /\ step.args.dst2 % 4096 # 0
  /\ step.args.nbytes > 0
  /\ step.rc = -EINVAL
  /\ tasks[step.task].cb \notin {NULL, step.cb}

\* C7: each call of the trampoline _accel_engine_done(ref, s) calls exactly
\* one completion callback: the one the submit of that task was given, with
\* that task and with s; the trampoline is called with the task of the
\* operation that completes.
C7_TrampolineForwards ==
  step.op # "none" =>
    LET ev == step.events
    IN  /\ \A i \in 1..Len(ev) :
             ev[i].e = "done" =>
               /\ i < Len(ev)
               /\ ev[i + 1].e = "cb"
               /\ ev[i].ref = step.task
               /\ ev[i + 1].task = ev[i].ref
               /\ ev[i + 1].status = ev[i].status
               /\ ev[i + 1].cb = passed[ev[i].ref]
        /\ \A i \in 1..Len(ev) :
             ev[i].e = "cb" => i > 1 /\ ev[i - 1].e = "done"
        /\ Len(CallbackCalls(ev)) <= 1

\* C7 witness: a hardware engine completed an operation with a nonzero
\* status while the other task holds a different callback.
C7_Witness ==
  /\ step.op = "complete"
  /\ step.status = 5
  /\ Len(CallbackCalls(step.events)) = 1
  /\ CallbackCalls(step.events)[1].status = 5
  /\ \E k \in Tasks :
       k # step.task /\ tasks[k].cb \notin {NULL, tasks[step.task].cb}

\* The data effect of a software operation, from memory m to memory n.
SwEffect(op, a, m, n, crc) ==
  LET len == a.nbytes
      Kept(written) == \A x \in Addrs \ written : n[x] = m[x]
  IN  CASE op = "copy" ->
             /\ \A i \in 0..(len - 1) : n[a.dst + i] = m[a.src + i]
             /\ Kept(Region(a.dst, len))
        [] op = "dualcast" ->
             /\ \A i \in 0..(len - 1) : n[a.dst + i] = m[a.src + i]
             /\ \A i \in 0..(len - 1) : n[a.dst2 + i] = m[a.src + i]
             /\ Kept(Region(a.dst, len) \cup Region(a.dst2, len))
        [] op = "fill" ->
             /\ \A i \in 0..(len - 1) : n[a.dst + i] = a.fill
             /\ Kept(Region(a.dst, len))
        [] op = "compare" -> n = m
        [] op = "crc32c" ->
             /\ n = m
             /\ crc = spdk_crc32c_update(m, a.src, len, Not32(ToWord(a.seed)))

\* C8: a copy, aligned dualcast, compare, fill or crc32c call on a channel
\* bound to the software engine returns 0 with the data effect applied and
\* the caller's callback called exactly once, with the submitted task; the
\* callback ran with the data effect already in memory.
C8_SoftwareInline ==
  [][(/\ step'.op \in {"copy", "dualcast", "compare", "fill", "crc32c"}
      /\ step'.engine = SwEngine
      /\ step'.forwarded) =>
       LET calls == CallbackCalls(step'.events)
       IN  /\ step'.rc = 0
           /\ SwEffect(step'.op, step'.args, mem, mem', step'.crc)
           /\ Len(calls) = 1
           /\ calls[1].cb = step'.cb
           /\ calls[1].task = step'.task
           /\ calls[1].seen = mem'
           /\ calls[1].crc = step'.crc
           /\ hw_pending' = hw_pending]_vars

\* C8 witness: a software copy of two bytes that changed the destination
\* returned with its callback called.
C8_Witness ==
  /\ step.op = "copy"
  /\ step.engine = SwEngine
  /\ step.args.nbytes = 2
  /\ mem[step.args.dst] = 1 /\ mem[step.args.dst + 1] = 0
  /\ Len(CallbackCalls(step.events)) = 1

\* C9: a compare on the software engine delivers status 0 to the callback
\* exactly when the first nbytes bytes of the two buffers are equal; the call
\* returns 0 either way and changes no byte.
C9_CompareStatus ==
  [][(step'.op = "compare" /\ step'.engine = SwEngine) =>
       LET calls == CallbackCalls(step'.events)
           a == step'.args
       IN  /\ Len(calls) = 1
           /\ calls[1].status = 0 <=>
                \A i \in 0..(a.nbytes - 1) : mem[a.src + i] = mem[a.src2 + i]
           /\ step'.rc = 0
           /\ mem' = mem]_vars

\* C9 witness: two buffers that differ only in their last byte compared
\* nonzero.
C9_Witness ==
  /\ step.op = "compare"
  /\ step.engine = SwEngine
  /\ step.args.nbytes = 2
  /\ mem[step.args.src] = mem[step.args.src2]
  /\ mem[step.args.src + 1] # mem[step.args.src2 + 1]
  /\ CallbackCalls(step.events)[1].status # 0

\* C10: a dualcast on the software engine with both destinations aligned
\* leaves the first nbytes bytes of dst1 and of dst2 equal to those of src,
\* leaves src as it was and completes with status 0.
C10_DualcastCopies ==
  [][(step'.op = "dualcast" /\ step'.engine = SwEngine /\ step'.forwarded) =>
       LET calls == CallbackCalls(step'.events)
           a == step'.args
       IN  /\ \A i \in 0..(a.nbytes - 1) :
                /\ mem'[a.dst + i] = mem[a.src + i]
                /\ mem'[a.dst2 + i] = mem[a.src + i]
                /\ mem'[a.src + i] = mem[a.src + i]
           /\ Len(calls) = 1
           /\ calls[1].status = 0]_vars

\* C10 witness: a software dualcast wrote a nonzero byte to two different
\* destinations.
C10_Witness ==
  /\ step.op = "dualcast"
  /\ step.engine = SwEngine
  /\ step.forwarded
  /\ step.args.nbytes >= 1
  /\ step.args.dst # step.args.dst2
  /\ mem[step.args.src] = 1
  /\ mem[step.args.dst] = 1 /\ mem[step.args.dst2] = 1

\* The context sizes of the modules of a list that have a get_ctx_size hook.
CtxSizes(list) ==
  {get_ctx_size(list[i]) : i \in {j \in 1..Len(list) : has_get_ctx_size(list[j])}}

\* The largest element of a set of naturals, 0 for the empty set.
MaxOf(S) == IF S = {} THEN 0 ELSE CHOOSE x \in S : \A y \in S : y <= x

\* C11: after every step spdk_accel_task_size() is the maximum of
\* get_ctx_size() over the registered modules that have the hook, 0 when
\* none has; the module list only changes by one module appended at its
\* tail, the earlier entries staying in place.
C11_TaskSizeIsMax ==
  [][/\ spdk_accel_task_size' = MaxOf(CtxSizes(spdk_accel_module_list'))
     /\ \/ spdk_accel_module_list' = spdk_accel_module_list
        \/ /\ Len(spdk_accel_module_list') = Len(spdk_accel_module_list) + 1
           /\ SubSeq(spdk_accel_module_list', 1, Len(spdk_accel_module_list))
                = spdk_accel_module_list]_vars

\* C11 witness: the module with the largest context registered first, then a
\* smaller one and one without the hook; the size is the largest.
C11_Witness ==
  /\ spdk_accel_module_list = <<"modA", SwModule, "modB">>
  /\ spdk_accel_task_size = 16

\* C12 as stated: once spdk_accel_task_size() is nonzero, every later
\* spdk_accel_module_list_add leaves it unchanged.
C12_FixedAfterFirst ==
  [][(spdk_accel_task_size # 0
      /\ spdk_accel_module_list' # spdk_accel_module_list) =>
       spdk_accel_task_size' = spdk_accel_task_size]_vars

\* C12: as amended, spdk_accel_task_size() never shrinks, and it changes only
\* when a module is appended whose get_ctx_size() is larger than the cached
\* value, which then becomes that size; every other step, and every add of a
\* module without the hook or with a size not larger, leaves it unchanged.
C12_GrowsOnlyToLarger ==
  [][/\ spdk_accel_task_size' >= spdk_accel_task_size
     /\ spdk_accel_task_size' # spdk_accel_task_size =>
          LET m == spdk_accel_module_list'[Len(spdk_accel_module_list')]
          IN  /\ spdk_accel_module_list' = Append(spdk_accel_module_list, m)
              /\ has_get_ctx_size(m)
              /\ get_ctx_size(m) > spdk_accel_task_size
              /\ spdk_accel_task_size' = get_ctx_size(m)
     /\ (/\ spdk_accel_module_list' # spdk_accel_module_list
         /\ LET m == spdk_accel_module_list'[Len(spdk_accel_module_list')]
            IN  ~has_get_ctx_size(m) \/ get_ctx_size(m) <= spdk_accel_task_size)
        => spdk_accel_task_size' = spdk_accel_task_size]_vars

\* C12 witness: the software module registered first with a nonzero size, a
\* later module raised the size and a third, smaller one left it.
C12_Witness ==
  /\ spdk_accel_module_list = <<SwModule, "modA", "modC">>
  /\ spdk_accel_task_size = get_ctx_size("modA")
  /\ get_ctx_size("modA") > get_ctx_size(SwModule)

\* The fini hooks run so far in the current finalization.
FiniInvoked == {hist.invoked[i] : i \in 1..Len(hist.invoked)}

\* C13 as stated: in every state after spdk_accel_engine_initialize has
\* returned, during and after finalization included, g_sw_accel_engine
\* refers to the software engine.
C13_SwSlotNeverEmpty ==
  phase \in {"running", "finalizing", "finished"} =>
    g_sw_accel_engine = SwEngine

\* C13: as amended, from the return of spdk_accel_engine_initialize until
\* the software module's fini hook runs in the finalization walk,
\* g_sw_accel_engine refers to the software engine; that hook empties the
\* slot, and it stays empty until the next spdk_accel_engine_initialize.
C13_SwSlotUntilFini ==
  phase \in {"running", "finalizing", "finished"} =>
    IF SwModule \in FiniInvoked
    THEN g_sw_accel_engine = NULL
    ELSE g_sw_accel_engine = SwEngine

\* C13 witness: a finalization in which another module's fini hook has run
\* and the software module's has not; the slot is still populated.
C13_Witness ==
  /\ phase = "finalizing"
  /\ FiniInvoked # {}
  /\ SwModule \notin FiniInvoked
  /\ g_sw_accel_engine = SwEngine

\* C14: once spdk_accel_engine_initialize has returned, it has called the
\* init hook of every module of the list exactly once, in list order, has
\* registered the framework's io device after the last hook and has returned
\* 0, whether or not a hook returned nonzero.
C14_InitWalk ==
  phase \in {"running", "finalizing", "finished"} =>
    /\ hist.init = Append(spdk_accel_module_list, AccelDev)
    /\ hist.init_rc = <<0>>

\* C14 witness: three modules were initialized, a hook returned nonzero and
\* the framework's io device is registered.
C14_Witness ==
  /\ phase = "running"
  /\ Len(spdk_accel_module_list) = 3
  /\ spdk_accel_module_list[1] # SwModule
  /\ hist.init_failed
  /\ AccelDev \in io_devices

\* C15: outside a finalization walk, that is before spdk_accel_engine_finish
\* is called and again once the walk ran off the end of the list and the
\* final callback returned, the cursor, the stored callback and the stored
\* argument are all empty; during a walk the cursor is on a module of the
\* list and the stored callback and argument are those of the finish call.
C15_CursorOnlyDuringWalk ==
  IF phase = "finalizing"
  THEN /\ g_accel_engine_module \in 1..Len(spdk_accel_module_list)
       /\ g_fini_cb_fn = hist.req.fn
       /\ g_fini_cb_arg = hist.req.arg
  ELSE /\ g_accel_engine_module = 0
       /\ g_fini_cb_fn = NULL
       /\ g_fini_cb_arg = NULL

\* C15 witness: a walk over three modules ended with the final callback
\* called, and the cursor and the stored callback are empty again.
C15_Witness ==
  /\ phase = "finished"
  /\ Len(hist.invoked) = 3
  /\ Len(hist.final) = 1
  /\ g_accel_engine_module = 0
  /\ g_fini_cb_fn = NULL

\* C16: when every message is delivered and every fini hook that ran calls
\* spdk_accel_engine_module_finish, a spdk_accel_engine_finish(cb_fn, arg)
\* call leads to cb_fn(arg) being called; and as long as a hook that ran has
\* not called back, cb_fn has not been called, no message is pending and no
\* step runs another hook or calls cb_fn.
C16_FinishTerminates ==
  /\ (hist.req # NoReq /\ hist.final = <<>>) ~> (hist.final = <<hist.req>>)
  /\ [](fini_running # {} => hist.final = <<>> /\ msgq = <<>>)
  /\ [][(fini_running # {} /\ fini_running' = fini_running) =>
          hist'.invoked = hist.invoked /\ hist'.final = hist.final]_vars

\* C16 witness: the last of three fini hooks has run and has not yet called
\* back; the final callback is still to come.
C16_Witness ==
  /\ Len(FiniModules) = 3
  /\ Len(hist.invoked) = 3
  /\ hist.invoked[3] \in fini_running
  /\ hist.final = <<>>
  /\ hist.req = [fn |-> "fini_cb1", arg |-> "arg2"]

\* The modules after position cur of the list that have a fini hook.
HooksAfter(cur) ==
  {i \in (cur + 1)..Len(spdk_accel_module_list) :
     module_fini(spdk_accel_module_list[i])}

\* A step in which spdk_accel_engine_module_finish is called: by
\* spdk_accel_engine_finish, or by a fini hook signalling completion.
Advances ==
  \/ hist'.req # hist.req /\ hist'.req # NoReq
  \/ hist'.signalled # hist.signalled /\ hist'.signalled # <<>>

\* C17: a fini hook runs only as the delivery of a message that an earlier
\* step sent; a call of spdk_accel_engine_module_finish skips the modules
\* without a fini hook in the same call and stops at the first module with
\* one, whose hook it sends and does not run; when no module after the
\* cursor has a fini hook, an empty list included, the final callback is
\* called before the call returns.
C17_HooksPostedNotRun ==
  [][/\ (hist'.invoked # hist.invoked /\ hist'.invoked # <<>>) =>
          /\ msgq # <<>>
          /\ hist'.invoked = Append(hist.invoked, Head(msgq))
     /\ Advances =>
          IF HooksAfter(g_accel_engine_module) = {}
          THEN /\ hist'.final = <<hist'.req>>
               /\ g_accel_engine_module' = 0
               /\ msgq' = <<>>
          ELSE LET nxt == CHOOSE i \in HooksAfter(g_accel_engine_module) :
                            \A j \in HooksAfter(g_accel_engine_module) : i <= j
               IN  /\ g_accel_engine_module' = nxt
                   /\ msgq' = <<spdk_accel_module_list[nxt]>>
                   /\ hist'.final = <<>>
                   /\ \A k \in 1..Len(hist'.invoked) :
                        hist'.invoked[k] # spdk_accel_module_list[nxt]
     /\ \A l \in {<<>>, <<"modC">>} : module_finish_cursor(l, 0) = 0]_vars

\* C17 witness: the software module's fini hook signalled completion, the
\* module after it has no fini hook, and the final callback was called.
C17_Witness ==
  /\ spdk_accel_module_list = <<"modA", SwModule, "modC">>
  /\ hist.signalled = <<"modA", SwModule>>
  /\ hist.final = <<hist.req>>
  /\ hist.req # NoReq

\* A step in which accel_engine_create_cb ran: a thread got a channel it did
\* not have, or the callback went through the empty software slot.
CreateRan ==
  \/ \E t \in Threads : ~HasChannel(t) /\ HasChannel(t)'
  \/ fault = "none" /\ fault' = "null_deref"

\* C18 as stated: whatever the order of the spdk_accel_engine_initialize,
\* get_channel and spdk_accel_engine_finish calls, accel_engine_create_cb
\* runs only with the software slot populated and never goes through an
\* empty slot.
C18_AnyInterleaving ==
  [][CreateRan => g_sw_accel_engine = SwEngine /\ fault' = "none"]_vars

\* C18: as amended, in every run in which spdk_accel_engine_initialize and
\* spdk_accel_engine_finish are called in lifecycle order (finish after an
\* initialize, the next initialize only after the final callback), with
\* get_channel calls at any point, the framework's io device is registered
\* only while the software slot and the software io device are populated,
\* and accel_engine_create_cb runs only then and never goes through an
\* empty slot.
C18_CreateOnlyWithSwSlot ==
  [][/\ (~hist'.misused /\ AccelDev \in io_devices') =>
          g_sw_accel_engine' = SwEngine /\ SwDev \in io_devices'
     /\ (~hist.misused /\ CreateRan) =>
          /\ g_sw_accel_engine = SwEngine
          /\ AccelDev \in io_devices
          /\ fault' = "none"]_vars

\* C18 witness: in a run in lifecycle order the software module's fini hook
\* has emptied the slot while one thread still holds a channel bound to the
\* software engine and the other has none and cannot create one.
C18_Witness ==
  /\ ~hist.misused
  /\ phase = "finalizing"
  /\ g_sw_accel_engine = NULL
  /\ AccelDev \notin io_devices
  /\ \E t, u \in Threads :
       /\ HasChannel(t) /\ BoundEngine(t) = SwEngine
       /\ ~HasChannel(u)

\* A step in which spdk_accel_engine_initialize ran and reached
\* accel_sw_register.
InitializeRan ==
  /\ hist' # hist
  /\ hist'.sw_assert # "none"
  /\ hist'.req = NoReq
  /\ hist'.invoked = <<>> /\ hist'.signalled = <<>> /\ hist'.final = <<>>

\* C19 as stated: the assert of accel_sw_register holds at every
\* spdk_accel_engine_initialize that is the first or follows a finalization
\* that ran to its final callback, and is violated at every initialize
\* called without a completed finalization since the previous one.
C19_AssertIffCompletedFinish ==
  [][(InitializeRan /\ ~hist.misused) =>
       IF phase \in {"startup", "finished"}
       THEN hist'.sw_assert = "held" /\ fault' = "none"
       ELSE hist'.sw_assert = "violated"]_vars

\* C19: as amended, the assert holds at the first initialize and at every
\* initialize that follows a finalization that ran to its final callback;
\* at an initialize called without a completed finalization since the
\* previous one it is violated exactly when the software module's fini hook
\* has not run since: once that hook has emptied the slot the assert holds,
\* although the finalization is still in progress. A held assert raises no
\* fault; a violated one aborts unless the build has no asserts.
C19_AssertIffSwFiniRan ==
  [][(InitializeRan /\ ~hist.misused) =>
       /\ hist'.sw_assert = "held" <=>
            \/ phase \in {"startup", "finished"}
            \/ phase = "finalizing" /\ SwModule \in FiniInvoked
       /\ hist'.sw_assert = "held" => fault' = "none"
       /\ hist'.sw_assert = "violated" => fault' \in {"assert", "none"}
       /\ fault' = "assert" => hist'.sw_assert = "violated"]_vars

\* C19 witness: an initialize called during a finalization, after the
\* software module's fini hook ran and while another module's teardown is
\* still running, passed the assert.
C19_Witness ==
  /\ hist.misused
  /\ hist.sw_assert = "held"
  /\ fault = "none"
  /\ fini_running # {}
  /\ g_sw_accel_engine = SwEngine
  /\ g_fini_cb_fn # NULL
====
